---- MODULE Spec2Model ----
(***************************************************************************)
(* A model of keras_ocr/detection.py: the box extraction of getBoxes, the  *)
(* training-target synthesis of compute_maps and get_batch_generator, the  *)
(* kernel of get_gaussian_heatmap, the normalization of compute_input and  *)
(* invert_input, and the loop of load_torch_weights.                       *)
(*                                                                         *)
(* Heatmap values are real numbers in [0,1] in the program; the model      *)
(* holds them in tenths (0.4 is 4, 0.7 is 7).  Coordinates that            *)
(* cv2.minAreaRect returns are real numbers; the model holds a box as four *)
(* integer numerators over one denominator, which is exact for the         *)
(* minimum-area rectangle of lattice points (float32 rounding of the       *)
(* library is not modelled).                                               *)
(***************************************************************************)
EXTENDS Integers, Sequences, FiniteSets, TLC

VARIABLES
    y_pred_cur,        \* getBoxes: the heatmap pair of the image, pixel -> <<text, link>>
    size_threshold,    \* getBoxes: the size_threshold argument
    text_score,        \* getBoxes: the binarized text map
    link_score,        \* getBoxes: the binarized link map
    box_groups,        \* getBoxes: the boxes returned for the image
    half_boxes,        \* getBoxes: the boxes before "2 * box" (history)
    pcBoxes            \* getBoxes: "idle", "call", "returned" or "IndexError"

boxesVars == <<y_pred_cur, size_threshold, text_score, link_score, box_groups,
               half_boxes, pcBoxes>>

VARIABLES
    heatmap,           \* compute_maps: the Gaussian kernel, rows of 8-bit values
    image_height,      \* compute_maps: the image_height argument
    image_width,       \* compute_maps: the image_width argument
    lines,             \* compute_maps: the lines, each a sequence of <<x1, y1, ..., x4, y4, c>>
    stamps,            \* compute_maps: the warps added to the maps, in order (history)
    textmap_acc,       \* compute_maps: textmap before the clip
    linkmap_acc,       \* compute_maps: linkmap before the clip
    maps,              \* compute_maps: the array returned
    pcMaps             \* compute_maps: "idle", "call", "returned" or "AssertionError"

mapsVars == <<heatmap, image_height, image_width, lines, stamps, textmap_acc,
              linkmap_acc, maps, pcMaps>>

VARIABLES
    heatmap_size,      \* get_gaussian_heatmap: the size argument
    distanceRatio,     \* get_gaussian_heatmap: the distanceRatio argument, in tenths
    gaussian_heatmap,  \* get_gaussian_heatmap: the array returned
    pcHeatmap          \* get_gaussian_heatmap: "idle", "call" or "returned"

kernelVars == <<heatmap_size, distanceRatio, gaussian_heatmap, pcHeatmap>>

VARIABLES
    image,             \* compute_input: the image, one pixel <<r, g, b>> of 8-bit values
    X,                 \* compute_input: the array returned, then given to invert_input
    inverted,          \* invert_input: the array returned
    pcInput            \* "idle", "call", "normalized" or "inverted"

inputVars == <<image, X, inverted, pcInput>>

VARIABLES
    constructed,       \* get_batch_generator: the kernel as get_gaussian_heatmap returned it (history)
    batch_size,        \* get_batch_generator: the batch_size argument
    batch_n,           \* get_batch_generator: the number of maps of the batch computed so far
    pcBatch            \* "idle", "next", "batch", "compute" or "AssertionError"

batchVars == <<constructed, batch_size, batch_n, pcBatch>>

VARIABLES
    model_layers,      \* load_torch_weights: the layers of model, name -> class
    layer_names,       \* load_torch_weights: the layer names of the weights file, in loop order
    layer_index,       \* load_torch_weights: the position of the loop in layer_names
    layer,             \* load_torch_weights: the name of the layer held by the local "layer"
    printed,           \* load_torch_weights: the names printed after 'Skipping'
    weights_set,       \* load_torch_weights: the layers whose weights were set
    pcLoad             \* "idle", "loop", "returned" or the name of the exception raised

loadVars == <<model_layers, layer_names, layer_index, layer, printed, weights_set, pcLoad>>

vars == <<boxesVars, mapsVars, kernelVars, inputVars, batchVars, loadVars>>

---------------------------------------------------------------------------
(* Bounds of the model. *)

\* getBoxes: the heatmap is ImgW by ImgH, at most MaxFg of its pixels are not
\* background, and size_threshold is at most MaxSizeThreshold.
ImgW == 3
ImgH == 2
MaxFg == 2
MaxSizeThreshold == 2

\* compute_maps: at most MaxLines lines of MaxEntries entries in all, and images
\* of at most MaxImageHeight by MaxImageWidth.
MaxLines == 2
MaxEntries == 4
MaxImageHeight == 5
MaxImageWidth == 17

\* get_gaussian_heatmap: kernels of at most MaxSize by MaxSize, and a
\* distanceRatio of at most MaxDistanceRatio tenths.
MaxSize == 5
MaxDistanceRatio == 34

\* get_batch_generator: batches of at most MaxBatchSize images.
MaxBatchSize == 2

---------------------------------------------------------------------------
(* Small helpers. *)

Min2(a, b) == IF a <= b THEN a ELSE b
Max2(a, b) == IF a >= b THEN a ELSE b
SetMin(S) == CHOOSE m \in S : \A n \in S : m <= n
SetMax(S) == CHOOSE m \in S : \A n \in S : m >= n
Abs(a) == IF a < 0 THEN -a ELSE a

RECURSIVE Gcd(_, _)
Gcd(a, b) == IF b = 0 THEN a ELSE Gcd(b, a % b)

---------------------------------------------------------------------------
(* getBoxes: the arguments. *)

\* Defaults of getBoxes, in tenths.
detection_threshold == 7
text_threshold == 4
link_threshold == 4

Pixels == (0 .. ImgW - 1) \X (0 .. ImgH - 1)

\* <<text, link>> of a pixel that is not background: strong text (equal to the
\* detection threshold), weak text, both values equal to their thresholds, link
\* only, and strong text under a link.
PixelValues == { <<7, 0>>, <<5, 0>>, <<4, 4>>, <<0, 5>>, <<7, 5>> }

\* The heatmap pairs of the model: the pixels of S have the values f gives
\* them and the others are background; at most MaxFg pixels are in S.
ForegroundSets == { S \in SUBSET Pixels : Cardinality(S) <= MaxFg }
HeatmapPair(S, f) == [p \in Pixels |-> IF p \in S THEN f[p] ELSE <<0, 0>>]

textmap(img) == [p \in Pixels |-> img[p][1]]
linkmap(img) == [p \in Pixels |-> img[p][2]]

---------------------------------------------------------------------------
(* getBoxes: binarization and labelling. *)

\* cv2.threshold(src, thresh, maxval, cv2.THRESH_BINARY) on one pixel.
ThresholdGE(src, thresh, maxval) == IF src >= thresh THEN maxval ELSE 0
Threshold(src, thresh, maxval) == IF src > thresh THEN maxval ELSE 0

TextScore(img) == [p \in Pixels |-> Threshold(img[p][1], text_threshold, 1)]
LinkScore(img) == [p \in Pixels |-> Threshold(img[p][2], link_threshold, 1)]

\* np.clip(text_score + link_score, 0, 1): the pixels that are 1.
Foreground(img) ==
    LET ts == TextScore(img)
        ls == LinkScore(img)
    IN  { p \in Pixels : Min2(Max2(ts[p] + ls[p], 0), 1) = 1 }

Adjacent4(p, q) == Abs(p[1] - q[1]) + Abs(p[2] - q[2]) = 1
Adjacent8(p, q) == p # q /\ Abs(p[1] - q[1]) <= 1 /\ Abs(p[2] - q[2]) <= 1

\* The pixels of F connected to S by 4-adjacency.
RECURSIVE Grow4(_, _)
Grow4(S, F) ==
    LET T == S \cup { q \in F : \E p \in S : Adjacent4(p, q) }
    IN  IF T = S THEN S ELSE Grow4(T, F)

\* The pixels of F connected to S by 8-adjacency.
RECURSIVE Grow8(_, _)
Grow8(S, F) ==
    LET T == S \cup { q \in F : \E p \in S : Adjacent8(p, q) }
    IN  IF T = S THEN S ELSE Grow8(T, F)

RasterIndex(p) == p[2] * ImgW + p[1]
FirstPixel(C) == CHOOSE p \in C : \A q \in C : RasterIndex(p) <= RasterIndex(q)

\* A set of disjoint pixel sets as a sequence, in the raster order of their
\* first pixels.
RECURSIVE InRasterOrder(_)
InRasterOrder(Cs) ==
    IF Cs = {} THEN << >>
    ELSE LET C == CHOOSE C \in Cs :
                    \A D \in Cs : RasterIndex(FirstPixel(C)) <= RasterIndex(FirstPixel(D))
         IN  <<C>> \o InRasterOrder(Cs \ {C})

\* cv2.connectedComponentsWithStats(..., connectivity=4): labels 1 .. n-1.
Components(img) ==
    LET F == Foreground(img)
    IN  InRasterOrder({ Grow4({p}, F) : p \in F })

StatArea(C) == Cardinality(C)
StatLeft(C) == SetMin({ p[1] : p \in C })
StatTop(C) == SetMin({ p[2] : p \in C })
StatWidth(C) == SetMax({ p[1] : p \in C }) - StatLeft(C) + 1
StatHeight(C) == SetMax({ p[2] : p \in C }) - StatTop(C) + 1

---------------------------------------------------------------------------
(* getBoxes: the filters. *)

PassesSize(C, st) == ~(StatArea(C) < st)

PassesDetection(img, C) == ~(SetMax({ img[p][1] : p \in C }) < detection_threshold)

Accepted(img, C, st) == PassesSize(C, st) /\ PassesDetection(img, C)

---------------------------------------------------------------------------
(* getBoxes: segmentation map and dilation. *)

\* segmap: the pixels that are 255 after the two assignments.
Segmap(img, C) ==
    LET ts == TextScore(img)
        ls == LinkScore(img)
    IN  { p \in C : ~(ls[p] # 0 /\ ts[p] # 0) }

\* int(np.sqrt(size * min(w, h) / (w * h)) * 2): the greatest n with
\* n * n <= 4 * size * min(w, h) / (w * h).
NiterOf(size, w, h) ==
    CHOOSE n \in 0 .. 2 * Min2(w, h) :
        /\ n * n * w * h <= 4 * size * Min2(w, h)
        /\ (n + 1) * (n + 1) * w * h > 4 * size * Min2(w, h)

Niter(C) == NiterOf(StatArea(C), StatWidth(C), StatHeight(C))

\* cv2.dilate(segmap[sy:ey, sx:ex], cv2.getStructuringElement(cv2.MORPH_RECT,
\* (k, k))) written back to segmap[sy:ey, sx:ex]: a pixel of the window becomes
\* 255 when a pixel of the window under the element, anchored at its centre
\* k // 2, is 255; outside the window the map is as it was.
DilateWindow(seg, sx, sy, ex, ey, k) ==
    { p \in Pixels :
        IF sx <= p[1] /\ p[1] < ex /\ sy <= p[2] /\ p[2] < ey
        THEN \E q \in seg :
                /\ sx <= q[1] /\ q[1] < ex /\ sy <= q[2] /\ q[2] < ey
                /\ q[1] - p[1] >= 0 - (k \div 2) /\ q[1] - p[1] <= k - 1 - (k \div 2)
                /\ q[2] - p[2] >= 0 - (k \div 2) /\ q[2] - p[2] <= k - 1 - (k \div 2)
        ELSE p \in seg }

\* sx, sy = max(x - niter, 0), max(y - niter, 0)
\* ex, ey = min(x + w + niter + 1, img_w), min(y + h + niter + 1, img_h)
DilateAround(seg, x, y, w, h, niter) ==
    DilateWindow(seg, Max2(x - niter, 0), Max2(y - niter, 0),
                 Min2(x + w + niter + 1, ImgW), Min2(y + h + niter + 1, ImgH), 1 + niter)

Dilated(img, C) ==
    DilateAround(Segmap(img, C), StatLeft(C), StatTop(C), StatWidth(C), StatHeight(C), Niter(C))

\* The pixels of a region that end their row and end their column.  They are
\* points of the region's outer contour, and every corner of the region's
\* convex hull is one of them.
Extremes(R) ==
    { p \in R :
        /\ (\A q \in R : q[2] = p[2] => q[1] >= p[1]) \/ (\A q \in R : q[2] = p[2] => q[1] <= p[1])
        /\ (\A q \in R : q[1] = p[1] => q[2] >= p[2]) \/ (\A q \in R : q[1] = p[1] => q[2] <= p[2]) }

\* cv2.findContours: one outer contour per 8-connected region of the map.  A
\* contour stands here by the extreme pixels of its region: cv2.minAreaRect of
\* the contour and the min/max of its points are those of these pixels.
RECURSIVE Regions(_)
Regions(D) ==
    IF D = {} THEN {}
    ELSE LET R == Grow8({FirstPixel(D)}, D)
         IN  {R} \cup Regions(D \ R)

Contours(D) == { Extremes(R) : R \in Regions(D) }

---------------------------------------------------------------------------
(* getBoxes: the rotated rectangle. *)

Cross(p, q, r) == (q[1] - p[1]) * (r[2] - p[2]) - (q[2] - p[2]) * (r[1] - p[1])

\* The rectangle with a side along q - p that encloses R: corners in clockwise
\* order (the y axis points down), as numerators over den; a and b are its
\* side lengths times the square root of den.
RectAlong(R, p, q) ==
    LET g == Gcd(Abs(q[1] - p[1]), Abs(q[2] - p[2]))
        dx == (q[1] - p[1]) \div g
        dy == (q[2] - p[2]) \div g
        as == { r[1] * dx + r[2] * dy : r \in R }
        bs == { r[2] * dx - r[1] * dy : r \in R }
        a0 == SetMin(as)
        a1 == SetMax(as)
        b0 == SetMin(bs)
        b1 == SetMax(bs)
        Corner(a, b) == <<a * dx - b * dy, a * dy + b * dx>>
    IN  [ pts |-> <<Corner(a0, b0), Corner(a1, b0), Corner(a1, b1), Corner(a0, b1)>>,
          den |-> dx * dx + dy * dy,
          a |-> a1 - a0,
          b |-> b1 - b0 ]

\* cv2.minAreaRect(contour): a rectangle of minimum area enclosing the contour
\* has a side along an edge of its convex hull; among several of equal area the
\* library's choice is left open.
MinAreaRect(R) ==
    IF Cardinality(R) = 1
    THEN LET p == CHOOSE p \in R : TRUE
         IN  { [pts |-> <<p, p, p, p>>, den |-> 1, a |-> 0, b |-> 0] }
    ELSE LET Edges == { e \in R \X R : e[1] # e[2] /\ \A r \in R : Cross(e[1], e[2], r) >= 0 }
             Rects == { RectAlong(R, e[1], e[2]) : e \in Edges }
         IN  { r \in Rects : \A s \in Rects : r.a * r.b * s.den <= s.a * s.b * r.den }

\* np.roll(box, shift, 0)
NpRollBack(pts, shift) == [i \in 1 .. 4 |-> pts[((i - 1 + shift) % 4) + 1]]
NpRoll(pts, shift) == [i \in 1 .. 4 |-> pts[((i - 1 - shift) % 4) + 1]]

\* cv2.boxPoints(rect): the four corners in clockwise order; the corner the
\* library starts from depends on the angle it gave the rectangle and is left open.
BoxPoints(R) ==
    { [r EXCEPT !.pts = NpRoll(r.pts, s)] : r \in MinAreaRect(R), s \in 0 .. 3 }

\* box.sum(axis=1).argmin(): the first index (from 0) of the least x + y.
SumArgmin(pts) ==
    LET sum == [i \in 1 .. 4 |-> pts[i][1] + pts[i][2]]
    IN  (CHOOSE i \in 1 .. 4 :
            /\ \A j \in 1 .. 4 : sum[i] <= sum[j]
            /\ \A j \in 1 .. i - 1 : sum[j] > sum[i]) - 1

\* abs(1 - box_ratio) <= 0.1 with box_ratio = max(w, h) / (min(w, h) + 1e-5):
\* w and h are a and b over the same square root, and the 1e-5 only decides
\* the case min(w, h) = 0, where the ratio is 0 or huge.
IsDiamond(box) ==
    /\ Min2(box.a, box.b) > 0
    /\ 10 * Max2(box.a, box.b) <= 11 * Min2(box.a, box.b)

\* The axis-aligned box of the contour's points.
ContourBox(R) ==
    LET l == SetMin({ p[1] : p \in R })
        r == SetMax({ p[1] : p \in R })
        t == SetMin({ p[2] : p \in R })
        b == SetMax({ p[2] : p \in R })
    IN  [ pts |-> << <<l, t>>, <<r, t>>, <<r, b>>, <<l, b>> >>, den |-> 1,
          diamond |-> TRUE ]

\* The box of one contour before scaling: the contour's axis-aligned box for a
\* near-square rectangle ("diamond"), else the rolled rotated rectangle.
HalfBox(R, box) ==
    IF IsDiamond(box)
    THEN ContourBox(R)
    ELSE [ pts |-> NpRoll(box.pts, 4 - SumArgmin(box.pts)), den |-> box.den,
           diamond |-> FALSE ]

\* 2 * box
Unscaled(box) == [ pts |-> box.pts, den |-> box.den ]
Scaled(box) ==
    [ pts |-> [i \in 1 .. 4 |-> <<2 * box.pts[i][1], 2 * box.pts[i][2]>>],
      den |-> box.den ]

---------------------------------------------------------------------------
(* getBoxes: one image. *)

AcceptedComponents(img, st) ==
    SelectSeq(Components(img), LAMBDA C : Accepted(img, C, st))

\* contour = contours[0] raises IndexError when no contour was found.
Raises(img, st) ==
    LET acc == AcceptedComponents(img, st)
    IN  \E i \in DOMAIN acc : Contours(Dilated(img, acc[i])) = {}

\* The boxes a component can give before scaling: contours[0] is one of the
\* contours (the library's order), and boxPoints starts from one of the corners.
HalfBoxes(img, C) ==
    LET D == Dilated(img, C)
    IN  { HalfBox(R, box) : <<R, box>> \in
              UNION { { <<R, box>> : box \in BoxPoints(R) } : R \in Contours(D) } }

RECURSIVE HalfBoxLists(_, _)
HalfBoxLists(img, Cs) ==
    IF Cs = << >> THEN { << >> }
    ELSE { <<b>> \o rest : b \in HalfBoxes(img, Head(Cs)),
                           rest \in HalfBoxLists(img, Tail(Cs)) }

ScaledList(hs) == [i \in DOMAIN hs |-> Scaled(hs[i])]

---------------------------------------------------------------------------
(* getBoxes: the call. *)

\* No compute_maps call is under way.
IdleMaps ==
    /\ heatmap = << >>
    /\ image_height = 0
    /\ image_width = 0
    /\ lines = << >>
    /\ stamps = << >>
    /\ textmap_acc = << >>
    /\ linkmap_acc = << >>
    /\ maps = << >>
    /\ pcMaps = "idle"

\* No getBoxes call is under way.
IdleBoxes ==
    /\ y_pred_cur = << >>
    /\ size_threshold = 0
    /\ text_score = << >>
    /\ link_score = << >>
    /\ box_groups = << >>
    /\ half_boxes = << >>
    /\ pcBoxes = "idle"

\* No get_gaussian_heatmap call is under way.
IdleKernel ==
    /\ heatmap_size = 0
    /\ distanceRatio = 0
    /\ gaussian_heatmap = << >>
    /\ pcHeatmap = "idle"

\* No compute_input or invert_input call is under way.
IdleInput ==
    /\ image = << >>
    /\ X = << >>
    /\ inverted = << >>
    /\ pcInput = "idle"

\* No generator of get_batch_generator is running.
IdleBatch ==
    /\ constructed = << >>
    /\ batch_size = 0
    /\ batch_n = 0
    /\ pcBatch = "idle"

\* No load_torch_weights call is under way.
IdleLoad ==
    /\ model_layers = << >>
    /\ layer_names = << >>
    /\ layer_index = 0
    /\ layer = ""
    /\ printed = << >>
    /\ weights_set = {}
    /\ pcLoad = "idle"

InitBoxes ==
    /\ \E S \in ForegroundSets : \E f \in [S -> PixelValues] :
          y_pred_cur = HeatmapPair(S, f)
    /\ size_threshold \in 1 .. MaxSizeThreshold
    /\ text_score = << >>
    /\ link_score = << >>
    /\ box_groups = << >>
    /\ half_boxes = << >>
    /\ pcBoxes = "call"
    /\ IdleMaps
    /\ IdleKernel
    /\ IdleInput
    /\ IdleBatch
    /\ IdleLoad

\* getBoxes returns the boxes of the image.
GetBoxesReturn ==
    /\ pcBoxes = "call"
    /\ ~Raises(y_pred_cur, size_threshold)
    /\ \E hs \in HalfBoxLists(y_pred_cur, AcceptedComponents(y_pred_cur, size_threshold)) :
          /\ half_boxes' = hs
          /\ box_groups' = ScaledList(hs)
    /\ text_score' = TextScore(y_pred_cur)
    /\ link_score' = LinkScore(y_pred_cur)
    /\ pcBoxes' = "returned"
    /\ UNCHANGED <<y_pred_cur, size_threshold, mapsVars, kernelVars, inputVars, batchVars, loadVars>>

\* getBoxes raises IndexError at contours[0].
GetBoxesRaise ==
    /\ pcBoxes = "call"
    /\ Raises(y_pred_cur, size_threshold)
    /\ text_score' = TextScore(y_pred_cur)
    /\ link_score' = LinkScore(y_pred_cur)
    /\ pcBoxes' = "IndexError"
    /\ UNCHANGED <<y_pred_cur, size_threshold, box_groups, half_boxes, mapsVars, kernelVars, inputVars, batchVars, loadVars>>

NextBoxes == GetBoxesReturn \/ GetBoxesRaise

SpecBoxes == InitBoxes /\ [][NextBoxes]_vars

---------------------------------------------------------------------------
(* compute_maps: the arguments. *)

\* Kernels of 2 by 2: get_gaussian_heatmap(2, 0) and an array of four
\* different values.
Kernels == { << <<255, 255>>, <<255, 255>> >>, << <<10, 20>>, <<30, 255>> >> }

Characters == { " ", "a" }

\* The quad of a character in an axis-aligned square from (x, y): top left,
\* top right, bottom right, bottom left.
Quad(x, y, side, c) == <<x, y, x + side, y, x + side, y + side, x, y + side, c>>

\* A line of adjacent squares from (x0, 0), each twice as wide as the kernel,
\* so that each warp is exact (see WarpPerspective).
LineFrom(x0, cs, side) == [j \in 1 .. Len(cs) |-> Quad(x0 + (j - 1) * side, 0, side, cs[j])]

LineOrigins == { 0, 4 }
CharSeqs(n) == UNION { [1 .. k -> Characters] : k \in 0 .. n }

\* The lists of at most m lines with at most n entries in all, each line as
\* <<origin, characters>>.
RECURSIVE LineLists(_, _)
LineLists(m, n) ==
    IF m = 0 THEN { << >> }
    ELSE { << >> } \cup
         UNION { { <<l>> \o rest : rest \in LineLists(m - 1, n - Len(l[2])) } :
                 l \in LineOrigins \X CharSeqs(n) }

---------------------------------------------------------------------------
(* compute_maps: geometry.  A point of heatmap space is held in sixteenths   *)
(* of a pixel, which holds the link points exactly.                          *)

\* assert image_height % 2 == 0 and assert image_width % 2 == 0
Unchecked(h, w) == TRUE
EvenDimensions(h, w) == h % 2 = 0 /\ w % 2 = 0

\* np.zeros((image_height // 2, image_width // 2)): the shape.
MapHeight(h) == h \div 2
MapWidth(w) == w \div 2

\* character_points: the four corners / 2.
CharacterPoints(e) ==
    << <<8 * e[1], 8 * e[2]>>, <<8 * e[3], 8 * e[4]>>,
       <<8 * e[5], 8 * e[6]>>, <<8 * e[7], 8 * e[8]>> >>

\* current_link_points: with (xc, yc) the mean of the corners,
\* [(xc + (x1 + x2) / 2) / 2, (yc + (y1 + y2) / 2) / 2] / 2 and the same with
\* corners 3 and 4.
CurrentLinkPoints(e) ==
    LET sx == e[1] + e[3] + e[5] + e[7]
        sy == e[2] + e[4] + e[6] + e[8]
    IN  << <<sx + 2 * (e[1] + e[3]), sy + 2 * (e[2] + e[4])>>,
           <<sx + 2 * (e[5] + e[7]), sy + 2 * (e[6] + e[8])>> >>

\* link_points
LinkPoints(previous, current) == <<previous[1], current[1], current[2], previous[2]>>

\* cv2.warpPerspective(heatmap, cv2.getPerspectiveTransform(src, dst), dsize)
\* at pixel (x, y), for dst an axis-aligned rectangle given from its top left
\* corner clockwise and src the corners of the kernel: the pixel takes the
\* kernel value at (kw * (x - l) / (r - l), kh * (y - t) / (b - t)), and 0
\* where that is outside the kernel (BORDER_CONSTANT).  Exact when both
\* quotients are whole numbers, where the bilinear sampling reads one pixel.
WarpPerspective(k, dst, x, y) ==
    LET kh == Len(k)
        kw == Len(k[1])
        sx == (kw * (16 * x - dst[1][1])) \div (dst[3][1] - dst[1][1])
        sy == (kh * (16 * y - dst[1][2])) \div (dst[3][2] - dst[1][2])
    IN  IF 0 <= sx /\ sx < kw /\ 0 <= sy /\ sy < kh THEN k[sy + 1][sx + 1] ELSE 0

\* The warps of the model are in the domain where WarpPerspective is exact.
WarpIsExact(k, dst, h2, w2) ==
    /\ dst[1][2] = dst[2][2] /\ dst[3][2] = dst[4][2]
    /\ dst[1][1] = dst[4][1] /\ dst[2][1] = dst[3][1]
    /\ dst[3][1] > dst[1][1] /\ dst[3][2] > dst[1][2]
    /\ \A x \in 0 .. w2 - 1 : (Len(k[1]) * (16 * x - dst[1][1])) % (dst[3][1] - dst[1][1]) = 0
    /\ \A y \in 0 .. h2 - 1 : (Len(k) * (16 * y - dst[1][2])) % (dst[3][2] - dst[1][2]) = 0

---------------------------------------------------------------------------
(* compute_maps: the loops. *)

\* previous_link_points = None
None == << >>

\* One entry of a line, without the reset at a space.
EntryStepNoReset(st, e, i, j) ==
    IF e[9] = " " THEN st
    ELSE [ previous |-> CurrentLinkPoints(e),
           stamps |-> st.stamps
               \o (IF st.previous # None
                   THEN << [map |-> "link", line |-> i, entry |-> j,
                            dst |-> LinkPoints(st.previous, CurrentLinkPoints(e))] >>
                   ELSE << >>)
               \o << [map |-> "text", line |-> i, entry |-> j, dst |-> CharacterPoints(e)] >> ]

\* One entry of a line: a space resets previous_link_points; a character adds
\* a link warp when previous_link_points is not None, then its text warp, and
\* becomes the previous one.
EntryStep(st, e, i, j) ==
    IF e[9] = " " THEN [ previous |-> None, stamps |-> st.stamps ]
    ELSE [ previous |-> CurrentLinkPoints(e),
           stamps |-> st.stamps
               \o (IF st.previous # None
                   THEN << [map |-> "link", line |-> i, entry |-> j,
                            dst |-> LinkPoints(st.previous, CurrentLinkPoints(e))] >>
                   ELSE << >>)
               \o << [map |-> "text", line |-> i, entry |-> j, dst |-> CharacterPoints(e)] >> ]

\* The first j entries of line i.
RECURSIVE LineSteps(_, _, _, _)
LineSteps(st, line, i, j) ==
    IF j = 0 THEN st
    ELSE EntryStep(LineSteps(st, line, i, j - 1), line[j], i, j)

\* The first i lines: each starts with previous_link_points = None.
RECURSIVE LinesSteps(_, _)
LinesSteps(ls, i) ==
    IF i = 0 THEN << >>
    ELSE LineSteps([previous |-> None, stamps |-> LinesSteps(ls, i - 1)],
                   ls[i], i, Len(ls[i])).stamps

Stamps(ls) == LinesSteps(ls, Len(ls))

\* map += warp
AccumulateMax(acc, warp) == IF acc >= warp THEN acc ELSE warp
Accumulate(acc, warp) == acc + warp

\* The pixel (x, y) of a map after the first n stamps.
RECURSIVE Accumulated(_, _, _, _, _, _)
Accumulated(k, st, n, map, x, y) ==
    IF n = 0 THEN 0
    ELSE IF st[n].map = map
         THEN Accumulate(Accumulated(k, st, n - 1, map, x, y),
                         WarpPerspective(k, st[n].dst, x, y))
         ELSE Accumulated(k, st, n - 1, map, x, y)

MapOf(k, st, map, h, w) ==
    [y \in 1 .. MapHeight(h) |->
        [x \in 1 .. MapWidth(w) |-> Accumulated(k, st, Len(st), map, x - 1, y - 1)]]

\* .clip(0, 255)
NoClip(v) == v
Clip(v) == Min2(Max2(v, 0), 255)

\* / 255: the quotient as <<numerator, denominator>>.
Normalized(v) == <<v, 255>>

\* np.concatenate([textmap[..., np.newaxis], linkmap[..., np.newaxis]], axis=2)
\*     .clip(0, 255) / 255
Concatenated(tm, lm) ==
    [y \in DOMAIN tm |->
        [x \in DOMAIN tm[y] |->
            << Normalized(Clip(tm[y][x])), Normalized(Clip(lm[y][x])) >>]]

\* What compute_maps returns when its assertions hold.
compute_maps(k, h, w, ls) ==
    Concatenated(MapOf(k, Stamps(ls), "text", h, w), MapOf(k, Stamps(ls), "link", h, w))

---------------------------------------------------------------------------
(* compute_maps: the call. *)

InitMaps ==
    /\ heatmap \in Kernels
    /\ image_height \in (MaxImageHeight - 1) .. MaxImageHeight
    /\ image_width \in (MaxImageWidth - 1) .. MaxImageWidth
    /\ \E ll \in LineLists(MaxLines, MaxEntries) :
          lines = [i \in 1 .. Len(ll) |-> LineFrom(ll[i][1], ll[i][2], 2 * Len(heatmap))]
    /\ stamps = << >>
    /\ textmap_acc = << >>
    /\ linkmap_acc = << >>
    /\ maps = << >>
    /\ pcMaps = "call"
    /\ IdleBoxes
    /\ IdleKernel
    /\ IdleInput
    /\ IdleBatch
    /\ IdleLoad

\* compute_maps returns the two-channel map.
ComputeMapsReturn ==
    /\ pcMaps = "call"
    /\ EvenDimensions(image_height, image_width)
    /\ stamps' = Stamps(lines)
    /\ textmap_acc' = MapOf(heatmap, Stamps(lines), "text", image_height, image_width)
    /\ linkmap_acc' = MapOf(heatmap, Stamps(lines), "link", image_height, image_width)
    /\ maps' = compute_maps(heatmap, image_height, image_width, lines)
    /\ pcMaps' = "returned"
    /\ UNCHANGED <<heatmap, image_height, image_width, lines, boxesVars, kernelVars, inputVars, batchVars, loadVars>>

\* An assertion of compute_maps fails.
ComputeMapsRaise ==
    /\ pcMaps = "call"
    /\ ~EvenDimensions(image_height, image_width)
    /\ pcMaps' = "AssertionError"
    /\ UNCHANGED <<heatmap, image_height, image_width, lines, stamps, textmap_acc,
                   linkmap_acc, maps, boxesVars, kernelVars, inputVars, batchVars, loadVars>>

NextMaps == ComputeMapsReturn \/ ComputeMapsRaise

SpecMaps == InitMaps /\ [][NextMaps]_vars

\* Every warp of a call is in the domain where WarpPerspective is exact.
WarpsAreExact ==
    \A n \in DOMAIN stamps :
        WarpIsExact(heatmap, stamps[n].dst, MapHeight(image_height), MapWidth(image_width))

---------------------------------------------------------------------------
(* get_gaussian_heatmap.  The coordinates of np.linspace are held as         *)
(* <<numerator, denominator>>, and the exponent of np.exp as a quotient of   *)
(* two integers; the rounding of the floating point operations is not        *)
(* modelled.                                                                 *)

\* np.linspace(0, size, num=size)
LinspaceFromZero(n) ==
    [i \in 1 .. n |-> IF n = 1 THEN <<0, 2>> ELSE <<2 * n * (i - 1), 2 * (n - 1)>>]

\* np.linspace(-size / 2, size / 2, num=size): from -size / 2 in steps of
\* size / (size - 1); the one point of a grid of 1 is the start.
Linspace(n) ==
    [i \in 1 .. n |->
        IF n = 1 THEN <<-1, 2>>
        ELSE <<2 * n * (i - 1) - n * (n - 1), 2 * (n - 1)>>]

\* v = np.abs(np.linspace(...))
V(n) == [i \in 1 .. n |-> <<Abs(Linspace(n)[i][1]), Linspace(n)[i][2]>>]

\* floor(1000 * ln(255 / n)) for n = 1 .. 255.
LnThreshold ==
    <<
       5541, 4848, 4442, 4154, 3931, 3749, 3595, 3461, 3344, 3238, 3143, 3056, 2976, 2902, 2833,
       2768, 2708, 2650, 2596, 2545, 2496, 2450, 2405, 2363, 2322, 2283, 2245, 2209, 2173, 2140,
       2107, 2075, 2044, 2014, 1985, 1957, 1930, 1903, 1877, 1852, 1827, 1803, 1780, 1757, 1734,
       1712, 1691, 1670, 1649, 1629, 1609, 1590, 1570, 1552, 1533, 1515, 1498, 1480, 1463, 1446,
       1430, 1414, 1398, 1382, 1366, 1351, 1336, 1321, 1307, 1292, 1278, 1264, 1250, 1237, 1223,
       1210, 1197, 1184, 1171, 1159, 1146, 1134, 1122, 1110, 1098, 1086, 1075, 1063, 1052, 1041,
       1030, 1019, 1008, 997, 987, 976, 966, 956, 946, 936, 926, 916, 906, 896, 887,
       877, 868, 859, 849, 840, 831, 822, 813, 805, 796, 787, 779, 770, 762, 753,
       745, 737, 729, 720, 712, 704, 697, 689, 681, 673, 666, 658, 650, 643, 635,
       628, 621, 614, 606, 599, 592, 585, 578, 571, 564, 557, 550, 544, 537, 530,
       523, 517, 510, 504, 497, 491, 485, 478, 472, 466, 459, 453, 447, 441, 435,
       429, 423, 417, 411, 405, 399, 393, 387, 382, 376, 370, 365, 359, 353, 348,
       342, 337, 331, 326, 320, 315, 310, 304, 299, 294, 288, 283, 278, 273, 268,
       263, 258, 252, 247, 242, 237, 232, 228, 223, 218, 213, 208, 203, 198, 194,
       189, 184, 179, 175, 170, 165, 161, 156, 152, 147, 143, 138, 134, 129, 125,
       120, 116, 111, 107, 103, 98, 94, 90, 85, 81, 77, 73, 68, 64, 60,
       56, 52, 48, 44, 40, 35, 31, 27, 23, 19, 15, 11, 7, 3, 0
    >>

\* g = np.exp(-t); g *= 255; g.clip(0, 255).astype('uint8'), for t the
\* quotient tnum / tden >= 0: the greatest n of 0 .. 255 with
\* n <= 255 * exp(-t), that is with t <= ln(255 / n), t taken in thousandths.
Exp255(tnum, tden) ==
    LET t == (tnum \div tden) * 1000 + ((tnum % tden) * 1000) \div tden
    IN  Cardinality({ n \in 1 .. 255 : t <= LnThreshold[n] })

\* The entry of row i and column j: x, y = np.meshgrid(v, v) puts v[j] in x
\* and v[i] in y; g = sqrt(x**2 + y**2) * distanceRatio / (size / 2) and the
\* exponent is g**2 / 2.  The ratio r is in tenths.
get_gaussian_heatmap(n, r) ==
    [i \in 1 .. n |->
        [j \in 1 .. n |->
            LET x == V(n)[j]
                y == V(n)[i]
            IN  Exp255((x[1] * x[1] + y[1] * y[1]) * 4 * r * r,
                       2 * x[2] * x[2] * 100 * n * n)]]

InitKernel ==
    /\ heatmap_size \in 1 .. MaxSize
    /\ distanceRatio \in 0 .. MaxDistanceRatio
    /\ gaussian_heatmap = << >>
    /\ pcHeatmap = "call"
    /\ IdleBoxes
    /\ IdleMaps
    /\ IdleInput
    /\ IdleBatch
    /\ IdleLoad

GetGaussianHeatmap ==
    /\ pcHeatmap = "call"
    /\ gaussian_heatmap' = get_gaussian_heatmap(heatmap_size, distanceRatio)
    /\ pcHeatmap' = "returned"
    /\ UNCHANGED <<heatmap_size, distanceRatio, boxesVars, mapsVars, inputVars, batchVars, loadVars>>

NextKernel == GetGaussianHeatmap

SpecKernel == InitKernel /\ [][NextKernel]_vars

---------------------------------------------------------------------------
(* compute_input and invert_input.  A float32 value is held in fixed point,  *)
(* as a whole number of Float32Unit-ths, and each operation rounds its exact *)
(* result to the nearest of them: a grid coarser than the 24-bit significand *)
(* of float32, with errors of the same kind.                                 *)

Float32Unit == 65536

\* mean and variance, in thousandths.
mean == <<485, 456, 406>>
variance == <<229, 224, 225>>

Channels == 1 .. 3

\* An 8-bit image of one pixel; every channel takes every value.
ChannelOffsets == { 0, 128 }
Images ==
    { <<v, (v + o1) % 256, (v + o2) % 256>> :
        v \in 0 .. 255, o1 \in ChannelOffsets, o2 \in ChannelOffsets }

\* The whole number nearest to p / q, for q > 0.
RoundNearest(p, q) == (p \div q) + (IF 2 * (p % q) >= q THEN 1 ELSE 0)

\* mean * 255, a number of thousandths, in fixed point.
Mean255(c) ==
    ((mean[c] * 255) \div 1000) * Float32Unit
        + RoundNearest(((mean[c] * 255) % 1000) * Float32Unit, 1000)

\* variance * 255 as a quotient in lowest terms.
Variance255(c) ==
    LET g == Gcd(variance[c] * 255, 1000)
    IN  <<(variance[c] * 255) \div g, 1000 \div g>>

\* image.astype('float32'); image -= mean * 255; image /= variance * 255
compute_input(img) ==
    [c \in Channels |->
        RoundNearest((img[c] * Float32Unit - Mean255(c)) * Variance255(c)[2],
                     Variance255(c)[1])]

\* X *= variance * 255; X += mean * 255
Denormalized(Xs) ==
    [c \in Channels |->
        RoundNearest(Xs[c] * Variance255(c)[1], Variance255(c)[2]) + Mean255(c)]

\* .clip(0, 255)
ClipFloat(v) == Min2(Max2(v, 0), 255 * Float32Unit)

\* A conversion to 8-bit that takes the nearest whole number.
AstypeRounded(v) == RoundNearest(v, Float32Unit)

\* .astype('uint8') of a value from 0 to 255: the fraction is dropped.
AstypeUint8(v) == v \div Float32Unit

\* invert_input works on a copy of X.
invert_input(Xs) == [c \in Channels |-> AstypeUint8(ClipFloat(Denormalized(Xs)[c]))]

InitInput ==
    /\ image \in Images
    /\ X = << >>
    /\ inverted = << >>
    /\ pcInput = "call"
    /\ IdleBoxes
    /\ IdleMaps
    /\ IdleKernel
    /\ IdleBatch
    /\ IdleLoad

ComputeInput ==
    /\ pcInput = "call"
    /\ X' = compute_input(image)
    /\ pcInput' = "normalized"
    /\ UNCHANGED <<image, inverted, boxesVars, mapsVars, kernelVars, batchVars, loadVars>>

InvertInput ==
    /\ pcInput = "normalized"
    /\ inverted' = invert_input(X)
    /\ pcInput' = "inverted"
    /\ UNCHANGED <<image, X, boxesVars, mapsVars, kernelVars, batchVars, loadVars>>

NextInput == ComputeInput \/ InvertInput

SpecInput == InitInput /\ [][NextInput]_vars

---------------------------------------------------------------------------
(* get_batch_generator: the kernel is built once, then every batch computes  *)
(* the maps of each of its images with it.                                   *)

\* heatmap = get_gaussian_heatmap(512, 1.5), with 2 for 512: the kernels of
\* compute_maps in this model are 2 by 2.
BatchKernelSize == 2
BatchDistanceRatio == 15

\* A compute_maps that writes into its heatmap argument.
HeatmapCleared(k, ls) == [i \in DOMAIN k |-> [j \in DOMAIN k[i] |-> 0]]

\* The heatmap argument after a call of compute_maps: the call reads it, in
\* heatmap.shape and as the source of cv2.warpPerspective, and writes only
\* arrays of its own.
HeatmapAfter(k, ls) == k

InitBatch ==
    /\ heatmap = get_gaussian_heatmap(BatchKernelSize, BatchDistanceRatio)
    /\ constructed = heatmap
    /\ batch_size \in 1 .. MaxBatchSize
    /\ batch_n = 0
    /\ pcBatch = "next"
    /\ image_height = 0
    /\ image_width = 0
    /\ lines = << >>
    /\ stamps = << >>
    /\ textmap_acc = << >>
    /\ linkmap_acc = << >>
    /\ maps = << >>
    /\ pcMaps = "idle"
    /\ IdleBoxes
    /\ IdleKernel
    /\ IdleInput
    /\ IdleLoad

\* batch = [next(image_generator) for n in range(batch_size)]; images: the
\* images of a batch are of one shape.
BatchDraw ==
    /\ pcBatch = "next"
    /\ image_height' \in (MaxImageHeight - 1) .. MaxImageHeight
    /\ image_width' \in (MaxImageWidth - 1) .. MaxImageWidth
    /\ batch_n' = 0
    /\ pcBatch' = "batch"
    /\ UNCHANGED <<heatmap, lines, stamps, textmap_acc, linkmap_acc, maps, pcMaps,
                   constructed, batch_size, boxesVars, kernelVars, inputVars, loadVars>>

\* for lines in line_groups: the next entry of the batch, of any lines.
BatchEntry ==
    /\ pcBatch = "batch"
    /\ batch_n < batch_size
    /\ \E ll \in LineLists(MaxLines, MaxEntries) :
          lines' = [i \in 1 .. Len(ll) |-> LineFrom(ll[i][1], ll[i][2], 2 * Len(heatmap))]
    /\ pcMaps' = "call"
    /\ pcBatch' = "compute"
    /\ UNCHANGED <<heatmap, image_height, image_width, stamps, textmap_acc, linkmap_acc,
                   maps, constructed, batch_size, batch_n, boxesVars, kernelVars,
                   inputVars, loadVars>>

\* compute_maps(heatmap=heatmap, image_height=images.shape[1],
\* image_width=images.shape[2], lines=lines) returns.
BatchComputeMaps ==
    /\ pcBatch = "compute"
    /\ pcMaps = "call"
    /\ EvenDimensions(image_height, image_width)
    /\ stamps' = Stamps(lines)
    /\ textmap_acc' = MapOf(heatmap, Stamps(lines), "text", image_height, image_width)
    /\ linkmap_acc' = MapOf(heatmap, Stamps(lines), "link", image_height, image_width)
    /\ maps' = compute_maps(heatmap, image_height, image_width, lines)
    /\ heatmap' = HeatmapAfter(heatmap, lines)
    /\ pcMaps' = "returned"
    /\ UNCHANGED <<image_height, image_width, lines, batchVars, boxesVars, kernelVars,
                   inputVars, loadVars>>

\* An assertion of compute_maps fails and ends the generator.
BatchComputeMapsRaise ==
    /\ pcBatch = "compute"
    /\ pcMaps = "call"
    /\ ~EvenDimensions(image_height, image_width)
    /\ pcMaps' = "AssertionError"
    /\ pcBatch' = "AssertionError"
    /\ UNCHANGED <<heatmap, image_height, image_width, lines, stamps, textmap_acc,
                   linkmap_acc, maps, constructed, batch_size, batch_n, boxesVars,
                   kernelVars, inputVars, loadVars>>

\* The maps returned become the next element of y.
BatchAppend ==
    /\ pcBatch = "compute"
    /\ pcMaps = "returned"
    /\ batch_n' = batch_n + 1
    /\ lines' = << >>
    /\ stamps' = << >>
    /\ textmap_acc' = << >>
    /\ linkmap_acc' = << >>
    /\ maps' = << >>
    /\ pcMaps' = "idle"
    /\ pcBatch' = "batch"
    /\ UNCHANGED <<heatmap, image_height, image_width, constructed, batch_size,
                   boxesVars, kernelVars, inputVars, loadVars>>

\* yield X, y; then while True goes on to the next batch.
BatchYield ==
    /\ pcBatch = "batch"
    /\ batch_n = batch_size
    /\ pcBatch' = "next"
    /\ UNCHANGED <<mapsVars, constructed, batch_size, batch_n, boxesVars, kernelVars,
                   inputVars, loadVars>>

NextBatch ==
    \/ BatchDraw
    \/ BatchEntry
    \/ BatchComputeMaps
    \/ BatchComputeMapsRaise
    \/ BatchAppend
    \/ BatchYield

SpecBatch == InitBatch /\ [][NextBatch]_vars

---------------------------------------------------------------------------
(* load_torch_weights.  The weights file is taken to hold every tensor of    *)
(* each layer it names.                                                      *)

LayerNames == { "basenet.slice1.0", "basenet.slice1.1", "upconv1.conv.0" }
LayerClasses == { "BatchNormalization", "Conv2D", "Activation" }

\* The local variable layer before its first assignment.
Unbound == "<unbound>"

\* The models: some of the names, each with the class of its layer.
Models == UNION { [N -> LayerClasses] : N \in SUBSET LayerNames }

\* list(set([...])): some of the names, each once, in any order.
LayerNameLists ==
    { l \in UNION { [1 .. k -> LayerNames] : k \in 0 .. Cardinality(LayerNames) } :
        \A i, j \in DOMAIN l : l[i] = l[j] => i = j }

\* model.get_layer(layer_name) raises when no layer has the name.
GetLayerRaises(mdl, name) == name \notin DOMAIN mdl

InitLoad ==
    /\ model_layers \in Models
    /\ layer_names \in LayerNameLists
    /\ layer_index = 1
    /\ layer = Unbound
    /\ printed = << >>
    /\ weights_set = {}
    /\ pcLoad = "loop"
    /\ IdleBoxes
    /\ IdleMaps
    /\ IdleKernel
    /\ IdleInput
    /\ IdleBatch

\* An iteration whose layer is found and is a BatchNormalization or a Conv2D:
\* layer.set_weights(...).
LoadSetWeights ==
    /\ pcLoad = "loop"
    /\ layer_index <= Len(layer_names)
    /\ ~GetLayerRaises(model_layers, layer_names[layer_index])
    /\ model_layers[layer_names[layer_index]] \in { "BatchNormalization", "Conv2D" }
    /\ layer' = layer_names[layer_index]
    /\ weights_set' = weights_set \cup { layer_names[layer_index] }
    /\ layer_index' = layer_index + 1
    /\ UNCHANGED <<model_layers, layer_names, printed, pcLoad, boxesVars, mapsVars,
                   kernelVars, inputVars, batchVars>>

\* An iteration whose layer is found and is of another class:
\* raise NotImplementedError.
LoadNotImplemented ==
    /\ pcLoad = "loop"
    /\ layer_index <= Len(layer_names)
    /\ ~GetLayerRaises(model_layers, layer_names[layer_index])
    /\ model_layers[layer_names[layer_index]] \notin { "BatchNormalization", "Conv2D" }
    /\ layer' = layer_names[layer_index]
    /\ pcLoad' = "NotImplementedError"
    /\ UNCHANGED <<model_layers, layer_names, layer_index, printed, weights_set,
                   boxesVars, mapsVars, kernelVars, inputVars, batchVars>>

\* An iteration whose lookup raises, after an iteration that found its layer:
\* print('Skipping', layer.name) prints the name of the layer that the local
\* still holds, and the loop continues.
LoadSkip ==
    /\ pcLoad = "loop"
    /\ layer_index <= Len(layer_names)
    /\ GetLayerRaises(model_layers, layer_names[layer_index])
    /\ layer # Unbound
    /\ printed' = Append(printed, layer)
    /\ layer_index' = layer_index + 1
    /\ UNCHANGED <<model_layers, layer_names, layer, weights_set, pcLoad, boxesVars,
                   mapsVars, kernelVars, inputVars, batchVars>>

\* An iteration whose lookup raises before any iteration found a layer:
\* layer.name in the handler raises UnboundLocalError, which ends the call.
LoadSkipUnbound ==
    /\ pcLoad = "loop"
    /\ layer_index <= Len(layer_names)
    /\ GetLayerRaises(model_layers, layer_names[layer_index])
    /\ layer = Unbound
    /\ pcLoad' = "UnboundLocalError"
    /\ UNCHANGED <<model_layers, layer_names, layer_index, layer, printed, weights_set,
                   boxesVars, mapsVars, kernelVars, inputVars, batchVars>>

\* The names of the layers of the model that must be in the weights file.
WeightedLayers(mdl) == { n \in DOMAIN mdl : mdl[n] \in { "BatchNormalization", "Conv2D" } }

\* After the loop, every assert layer.name in layer_names holds.
LoadReturn ==
    /\ pcLoad = "loop"
    /\ layer_index > Len(layer_names)
    /\ WeightedLayers(model_layers) \subseteq { layer_names[i] : i \in DOMAIN layer_names }
    /\ pcLoad' = "returned"
    /\ UNCHANGED <<model_layers, layer_names, layer_index, layer, printed, weights_set,
                   boxesVars, mapsVars, kernelVars, inputVars, batchVars>>

\* After the loop, an assert layer.name in layer_names fails.
LoadAssertionError ==
    /\ pcLoad = "loop"
    /\ layer_index > Len(layer_names)
    /\ ~(WeightedLayers(model_layers) \subseteq { layer_names[i] : i \in DOMAIN layer_names })
    /\ pcLoad' = "AssertionError"
    /\ UNCHANGED <<model_layers, layer_names, layer_index, layer, printed, weights_set,
                   boxesVars, mapsVars, kernelVars, inputVars, batchVars>>

NextLoad ==
    \/ LoadSetWeights
    \/ LoadNotImplemented
    \/ LoadSkip
    \/ LoadSkipUnbound
    \/ LoadReturn
    \/ LoadAssertionError

SpecLoad == InitLoad /\ [][NextLoad]_vars

---------------------------------------------------------------------------
(* Claims about getBoxes. *)

Called == pcBoxes # "call"
Returned == pcBoxes = "returned"

\* The four points turn clockwise on the image (the y axis points down), and
\* strictly so when they are four different points.
Clockwise(pts) ==
    /\ \A i \in 1 .. 4 : Cross(pts[i], pts[(i % 4) + 1], pts[((i + 1) % 4) + 1]) >= 0
    /\ Cardinality({ pts[i] : i \in 1 .. 4 }) = 4 =>
          \A i \in 1 .. 4 : Cross(pts[i], pts[(i % 4) + 1], pts[((i + 1) % 4) + 1]) > 0

\* C1: every returned box, from the rotated-rectangle branch or from the
\* near-square fallback, has its 4 points in clockwise order, and its point 0
\* has the least x + y of the four.
C1_ClockwiseFromMinSum ==
    Returned =>
        \A k \in DOMAIN box_groups :
            /\ Clockwise(box_groups[k].pts)
            /\ \A j \in 1 .. 4 :
                  box_groups[k].pts[1][1] + box_groups[k].pts[1][2]
                      <= box_groups[k].pts[j][1] + box_groups[k].pts[j][2]

\* A call that returned a box of each branch.
C1_Witness ==
    /\ Returned
    /\ \E k \in DOMAIN half_boxes : half_boxes[k].diamond
    /\ \E k \in DOMAIN half_boxes :
          ~half_boxes[k].diamond /\ Cardinality({ half_boxes[k].pts[i] : i \in 1 .. 4 }) = 4

\* C2 as stated: a pixel's mask is 1 exactly when its value is greater than or
\* equal to the threshold (text against text_threshold, link against
\* link_threshold), and 0 otherwise.
C2_BinarizeAtLeast ==
    Called =>
        \A p \in Pixels :
            /\ text_score[p] = (IF y_pred_cur[p][1] >= text_threshold THEN 1 ELSE 0)
            /\ link_score[p] = (IF y_pred_cur[p][2] >= link_threshold THEN 1 ELSE 0)

\* C2 as amended: a pixel's mask is 1 exactly when its value is strictly
\* greater than the threshold; a value equal to the threshold gives 0.
C2_BinarizeStrictlyGreater ==
    Called =>
        \A p \in Pixels :
            /\ text_score[p] = (IF y_pred_cur[p][1] > text_threshold THEN 1 ELSE 0)
            /\ link_score[p] = (IF y_pred_cur[p][2] > link_threshold THEN 1 ELSE 0)

\* A binarized pixel whose text and link values equal their thresholds.
C2_Witness ==
    /\ Called
    /\ \E p \in Pixels :
          /\ y_pred_cur[p][1] = text_threshold
          /\ y_pred_cur[p][2] = link_threshold
          /\ text_score[p] = 0
          /\ link_score[p] = 0

\* The 4-connected components of the union of the two masks that pass the size
\* and detection filters, from the masks of the call.
MaskComponents ==
    LET F == { p \in Pixels : text_score[p] = 1 \/ link_score[p] = 1 }
    IN  { Grow4({p}, F) : p \in F }

PassingComponents(st) ==
    { C \in MaskComponents :
        /\ Cardinality(C) >= st
        /\ \E p \in C : y_pred_cur[p][1] >= detection_threshold }

\* The passing components whose segmentation mask is empty once the pixels
\* where both masks are 1 are zeroed.
EmptyMaskComponents(st) ==
    { C \in PassingComponents(st) :
        \A p \in C : text_score[p] = 1 /\ link_score[p] = 1 }

\* C3: the call never fails on degenerate geometry: when a component that
\* passed the filters has an empty segmentation mask, it is rejected and the
\* call returns the boxes of the other components.
C3_EmptyMaskRejected ==
    (Called /\ EmptyMaskComponents(size_threshold) # {}) =>
        /\ Returned
        /\ Len(box_groups) =
              Cardinality(PassingComponents(size_threshold) \ EmptyMaskComponents(size_threshold))

\* C6: the call returns exactly one box for every component of the union mask
\* whose area is at least size_threshold and whose greatest text value is at
\* least detection_threshold, none for the others, and no error.
C6_OneBoxPerPassingComponent ==
    Called =>
        /\ Returned
        /\ Len(box_groups) = Cardinality(PassingComponents(size_threshold))

\* What holds of the code: a call that returns gives one box per passing component.
ReturnedOneBoxPerPassingComponent ==
    Returned => Len(box_groups) = Cardinality(PassingComponents(size_threshold))

\* C7: for the same heatmap pair, a call with a size threshold s2 at or above
\* this call's returns at most as many boxes as this call returned.
C7_SizeThresholdMonotone ==
    Called =>
        \A s2 \in size_threshold .. MaxSizeThreshold :
            ~Raises(y_pred_cur, s2) =>
                /\ Returned
                /\ Len(AcceptedComponents(y_pred_cur, s2)) <= Len(box_groups)

\* The text pixels of the image; a blob is a filled rectangle of them.
TextPixels == { p \in Pixels : y_pred_cur[p][1] > text_threshold }

SingleRectangularBlob ==
    /\ \A p \in Pixels : y_pred_cur[p][2] = 0
    /\ TextPixels # {}
    /\ TextPixels = { p \in Pixels :
                        /\ p[1] \in StatLeft(TextPixels) .. (StatLeft(TextPixels) + StatWidth(TextPixels) - 1)
                        /\ p[2] \in StatTop(TextPixels) .. (StatTop(TextPixels) + StatHeight(TextPixels) - 1) }
    /\ Cardinality(TextPixels) >= size_threshold
    /\ \E p \in TextPixels : y_pred_cur[p][1] >= detection_threshold

\* The corners of a filled rectangle grown by the dilation, in heatmap space.
BlobCorners ==
    LET k == 1 + Niter(TextPixels)
        back == k \div 2
        fwd == k - 1 - back
        l == Max2(StatLeft(TextPixels) - fwd, 0)
        t == Max2(StatTop(TextPixels) - fwd, 0)
        r == Min2(StatLeft(TextPixels) + StatWidth(TextPixels) - 1 + back, ImgW - 1)
        b == Min2(StatTop(TextPixels) + StatHeight(TextPixels) - 1 + back, ImgH - 1)
    IN  { <<l, t>>, <<r, t>>, <<r, b>>, <<l, b>> }

---------------------------------------------------------------------------
(* Claims about compute_maps. *)

MapsCalled == pcMaps # "idle"
MapsReturned == pcMaps = "returned"
MapPixels == (0 .. MapWidth(image_width) - 1) \X (0 .. MapHeight(image_height) - 1)
IsCharacter(i, j) == lines[i][j][9] # " "

\* The entries that follow a character in their line and are characters.
LinkedEntries ==
    { ij \in UNION { { <<i, j>> : j \in DOMAIN lines[i] } : i \in DOMAIN lines } :
        /\ ij[2] > 1
        /\ IsCharacter(ij[1], ij[2])
        /\ IsCharacter(ij[1], ij[2] - 1) }

CharacterEntries ==
    { ij \in UNION { { <<i, j>> : j \in DOMAIN lines[i] } : i \in DOMAIN lines } :
        IsCharacter(ij[1], ij[2]) }

\* The quad of the link between an entry and the entry before it.
LinkQuad(ij) ==
    LinkPoints(CurrentLinkPoints(lines[ij[1]][ij[2] - 1]),
               CurrentLinkPoints(lines[ij[1]][ij[2]]))

LinkStamps == { n \in DOMAIN stamps : stamps[n].map = "link" }

\* C4: when compute_maps returns, the link warps it added are one for each
\* character that immediately follows a character in its line, and no other;
\* the quad of each joins the link points of these two entries, and the link
\* map is zero wherever none of these quads puts a value.
C4_LinkOnlyBetweenConsecutiveCharacters ==
    MapsReturned =>
        /\ \A n \in LinkStamps : <<stamps[n].line, stamps[n].entry>> \in LinkedEntries
        /\ \A ij \in LinkedEntries :
               Cardinality({ n \in LinkStamps :
                               stamps[n].line = ij[1] /\ stamps[n].entry = ij[2] }) = 1
        /\ \A n \in LinkStamps :
               stamps[n].dst = LinkQuad(<<stamps[n].line, stamps[n].entry>>)
        /\ \A p \in MapPixels :
               linkmap_acc[p[2] + 1][p[1] + 1] > 0 =>
                   \E ij \in LinkedEntries :
                       WarpPerspective(heatmap, LinkQuad(ij), p[1], p[2]) > 0

\* A line of a character, a space and two characters has given one link,
\* between the last two.
C4_Witness ==
    /\ MapsReturned
    /\ \E i \in DOMAIN lines :
          /\ Len(lines[i]) = 4
          /\ IsCharacter(i, 1) /\ ~IsCharacter(i, 2)
          /\ IsCharacter(i, 3) /\ IsCharacter(i, 4)
          /\ { stamps[n].entry : n \in { m \in LinkStamps : stamps[m].line = i } } = { 4 }
    /\ \E p \in MapPixels : linkmap_acc[p[2] + 1][p[1] + 1] > 0

\* C5: a call of compute_maps with an odd image_height or an odd image_width
\* ends in an error (the AssertionError of the assertion) and gives no maps.
C5_OddDimensionRaises ==
    (MapsCalled /\ pcMaps # "call" /\ (image_height % 2 = 1 \/ image_width % 2 = 1)) =>
        /\ pcMaps = "AssertionError"
        /\ maps = << >>
        /\ textmap_acc = << >>
        /\ linkmap_acc = << >>

C5_Witness ==
    /\ pcMaps = "AssertionError"
    /\ image_height % 2 = 0
    /\ image_width % 2 = 1
    /\ lines # << >>
    /\ maps = << >>

\* C9: a call of compute_maps with even dimensions returns, and what it
\* returns has image_height / 2 rows of image_width / 2 pixels of 2 channels,
\* each a value from 0 to 1.
C9_MapsInUnitRange ==
    (MapsCalled /\ pcMaps # "call" /\ image_height % 2 = 0 /\ image_width % 2 = 0) =>
        /\ MapsReturned
        /\ 2 * Len(maps) = image_height
        /\ \A y \in DOMAIN maps :
              /\ 2 * Len(maps[y]) = image_width
              /\ \A x \in DOMAIN maps[y] :
                    /\ Len(maps[y][x]) = 2
                    /\ \A c \in 1 .. 2 :
                          /\ maps[y][x][c][2] > 0
                          /\ 0 <= maps[y][x][c][1]
                          /\ maps[y][x][c][1] <= maps[y][x][c][2]

\* Two characters overlap and their sum, above 255, is returned as 1.
C9_Witness ==
    /\ MapsReturned
    /\ \E p \in MapPixels :
          /\ textmap_acc[p[2] + 1][p[1] + 1] > 255
          /\ maps[p[2] + 1][p[1] + 1][1] = <<255, 255>>
    /\ \E p \in MapPixels : maps[p[2] + 1][p[1] + 1][1] = <<0, 255>>

\* The sum over a set of quads, each with the entry it is of, of their warps
\* at a pixel.
RECURSIVE SumOfWarps(_, _, _)
SumOfWarps(Q, x, y) ==
    IF Q = {} THEN 0
    ELSE LET q == CHOOSE r \in Q : TRUE
         IN  WarpPerspective(heatmap, q[2], x, y) + SumOfWarps(Q \ {q}, x, y)

\* The pixelwise sum of two returned maps.
MapSum(a, b) ==
    [y \in DOMAIN a |->
        [x \in DOMAIN a[y] |->
            [c \in 1 .. 2 |-> <<a[y][x][c][1] + b[y][x][c][1], 255>>]]]

\* No pixel takes a value from the characters of both lines.
DisjointLines(l1, l2) ==
    \A p \in MapPixels :
        \A e1 \in { l1[j] : j \in DOMAIN l1 }, e2 \in { l2[j] : j \in DOMAIN l2 } :
            ~ /\ e1[9] # " " /\ e2[9] # " "
              /\ WarpPerspective(heatmap, CharacterPoints(e1), p[1], p[2]) > 0
              /\ WarpPerspective(heatmap, CharacterPoints(e2), p[1], p[2]) > 0

\* C10: when compute_maps returns, each pixel of the text map before the clip
\* is the sum of the warps of the characters, and each pixel of the link map
\* the sum of the warps of the links; and for two lines of one quad each that
\* share no pixel, the map returned is the sum of the maps returned for each
\* line alone.
C10_AccumulationIsAdditive ==
    MapsReturned =>
        /\ \A p \in MapPixels :
              /\ textmap_acc[p[2] + 1][p[1] + 1] =
                     SumOfWarps({ <<ij, CharacterPoints(lines[ij[1]][ij[2]])>> :
                                    ij \in CharacterEntries }, p[1], p[2])
              /\ linkmap_acc[p[2] + 1][p[1] + 1] =
                     SumOfWarps({ <<ij, LinkQuad(ij)>> : ij \in LinkedEntries }, p[1], p[2])
        /\ ( /\ Len(lines) = 2
             /\ Len(lines[1]) = 1
             /\ Len(lines[2]) = 1
             /\ DisjointLines(lines[1], lines[2]) ) =>
               maps = MapSum(compute_maps(heatmap, image_height, image_width, <<lines[1]>>),
                             compute_maps(heatmap, image_height, image_width, <<lines[2]>>))

\* Two lines of one character each, apart, have been synthesized in one call.
C10_Witness ==
    /\ MapsReturned
    /\ Len(lines) = 2
    /\ Len(lines[1]) = 1 /\ IsCharacter(1, 1)
    /\ Len(lines[2]) = 1 /\ IsCharacter(2, 1)
    /\ lines[1] # lines[2]
    /\ DisjointLines(lines[1], lines[2])
    /\ \E p \in MapPixels : maps[p[2] + 1][p[1] + 1][1][1] > 0

---------------------------------------------------------------------------
(* Claims about get_gaussian_heatmap. *)

KernelReturned == pcHeatmap = "returned"

\* The middle of the grid: one row and column for an odd size, two for an
\* even one.
Centre == { (heatmap_size + 1) \div 2, (heatmap_size + 2) \div 2 }

\* C11: the kernel that get_gaussian_heatmap returns is size by size, each
\* entry is from 0 to 255 and equals the entry opposite to it through the
\* centre, and no entry is greater than an entry at the centre of the grid.
C11_KernelSymmetricCentred ==
    KernelReturned =>
        /\ Len(gaussian_heatmap) = heatmap_size
        /\ \A i \in 1 .. heatmap_size :
              /\ Len(gaussian_heatmap[i]) = heatmap_size
              /\ \A j \in 1 .. heatmap_size :
                    /\ gaussian_heatmap[i][j] \in 0 .. 255
                    /\ gaussian_heatmap[i][j] =
                           gaussian_heatmap[heatmap_size + 1 - i][heatmap_size + 1 - j]
                    /\ \A ci \in Centre, cj \in Centre :
                           gaussian_heatmap[i][j] <= gaussian_heatmap[ci][cj]

\* A kernel of 4 by 4 of the ratio 1.5 has 198 at its four middle entries
\* and less at its corners.
C11_Witness ==
    /\ KernelReturned
    /\ heatmap_size = 4
    /\ distanceRatio = 15
    /\ gaussian_heatmap[2][3] = 198
    /\ gaussian_heatmap[1][1] < gaussian_heatmap[2][2]
    /\ gaussian_heatmap[1][1] = gaussian_heatmap[4][4]

---------------------------------------------------------------------------
(* Claims about compute_input and invert_input. *)

Inverted == pcInput = "inverted"

\* C12 as stated: invert_input(compute_input(image)) is within 1 of image in
\* every channel, and is the clipped value converted to 8-bit by rounding to
\* the nearest whole number.
C12_RoundTripByRounding ==
    Inverted =>
        \A c \in Channels :
            /\ Abs(inverted[c] - image[c]) <= 1
            /\ inverted[c] = RoundNearest(ClipFloat(Denormalized(X)[c]), Float32Unit)

\* C12, amended: invert_input(compute_input(image)) is within 1 of image in
\* every channel, is an 8-bit value, and is the clipped value with its
\* fraction dropped: a value just under a whole number becomes the number
\* below it.
C12_RoundTripByTruncation ==
    Inverted =>
        \A c \in Channels :
            /\ Abs(inverted[c] - image[c]) <= 1
            /\ inverted[c] \in 0 .. 255
            /\ inverted[c] * Float32Unit <= ClipFloat(Denormalized(X)[c])
            /\ ClipFloat(Denormalized(X)[c]) < (inverted[c] + 1) * Float32Unit

\* One channel came back as it was and another came back 1 less, from a
\* value just under the original.
C12_Witness ==
    /\ Inverted
    /\ \E c \in Channels : inverted[c] = image[c]
    /\ \E c \in Channels :
          /\ inverted[c] = image[c] - 1
          /\ Denormalized(X)[c] < image[c] * Float32Unit
          /\ 2 * (image[c] * Float32Unit - Denormalized(X)[c]) < Float32Unit

---------------------------------------------------------------------------
(* Claims about get_batch_generator. *)

---------------------------------------------------------------------------
(* Claims about load_torch_weights. *)

\* The names of the first n entries of layer_names that have no layer in the
\* model, in loop order.
RECURSIVE MissingNames(_)
MissingNames(n) ==
    IF n = 0 THEN << >>
    ELSE MissingNames(n - 1) \o
         (IF GetLayerRaises(model_layers, layer_names[n]) THEN <<layer_names[n]>> ELSE << >>)

\* C14: in a call of load_torch_weights, the names printed are the names, of
\* those the loop has gone through, that have no layer in the model, and no
\* lookup that fails ends the call, wherever the name is in the order.
C14_MissingNameLoggedAndSkipped ==
    pcLoad # "idle" =>
        /\ pcLoad # "UnboundLocalError"
        /\ printed = MissingNames(layer_index - 1)

\* A call that returns has gone through every name of layer_names.
LoadGoesOnAfterBoundSkip ==
    (pcLoad = "returned") => layer_index = Len(layer_names) + 1

====
